---------------------------- MODULE Spec2Model ----------------------------
(***************************************************************************)
(* Request authentication of the rsapi client library: the cookie-session *)
(* signer, the OAuth refresh-token signer, the static bearer-token signer, *)
(* the RightLink 10 proxy-secret signer and the Self-Service signer that   *)
(* wraps one of them.                                                      *)
(*                                                                         *)
(* Strings of the program are sequences of one-character strings, so that  *)
(* splitting, joining, prefix tests, formatting and parsing are computed.  *)
(* The clock counts milliseconds.                                          *)
(***************************************************************************)
EXTENDS Integers, Sequences, FiniteSets, TLC

\* ------------------------------------------------------------------ bounds
\* Sign calls started in one behaviour.
MaxCalls == 2
\* Clock advances in one behaviour.
MaxTicks == 2

\* The goroutines that call into the one shared authenticator.
Procs == {"g1", "g2"}

\* ------------------------------------------------------------------ strings
Us3 == <<"u", "s", "-", "3", ".", "r", "i", "g", "h", "t", "s", "c", "a", "l", "e", ".", "c", "o", "m">>
Us4 == <<"u", "s", "-", "4", ".", "r", "i", "g", "h", "t", "s", "c", "a", "l", "e", ".", "c", "o", "m">>
Single == <<"s", "i", "n", "g", "l", "e", ".", "e", "x", "a", "m", "p", "l", "e", ".", "c", "o", "m">>
Localhost == <<"l", "o", "c", "a", "l", "h", "o", "s", "t", ":", "8", "0", "8", "0">>
SsUs3 == <<"u", "s", "-", "s", "e", "l", "f", "s", "e", "r", "v", "i", "c", "e", "-", "3", ".", "r", "i", "g", "h", "t", "s", "c", "a", "l", "e", ".", "c", "o", "m">>
LocUs4 == <<"h", "t", "t", "p", "s", ":", "/", "/", "u", "s", "-", "4", ".", "r", "i", "g", "h", "t", "s", "c", "a", "l", "e", ".", "c", "o", "m", "/", "x">>
LocBad == <<":", "/", "/", "b", "a", "d">>
Empty == <<>>

Digits == <<"0", "1", "2", "3", "4", "5", "6", "7", "8", "9">>
IsDigit(c) == \E i \in 1..10 : Digits[i] = c
DigitVal(c) == (CHOOSE i \in 1..10 : Digits[i] = c) - 1
Letters == {"a", "b", "c", "d", "e", "f", "g", "h", "i", "j", "k", "l", "m", "n", "o",
            "p", "q", "r", "s", "t", "u", "v", "w", "x", "y", "z"}

\* s[from..], "" past the end.
Drop(s, n) == SubSeq(s, n + 1, Len(s))
Take(s, n) == SubSeq(s, 1, n)

\* strings.HasPrefix
HasPrefix(s, p) == Len(s) >= Len(p) /\ Take(s, Len(p)) = p
\* strings.HasSuffix
HasSuffix(s, p) == Len(s) >= Len(p) /\ Drop(s, Len(s) - Len(p)) = p

\* strings.Index of a one-character separator: 0 when absent, else the position.
IndexOf(s, c) ==
    IF \E i \in 1..Len(s) : s[i] = c
    THEN CHOOSE i \in 1..Len(s) : s[i] = c /\ \A j \in 1..(i - 1) : s[j] # c
    ELSE 0

\* strings.Split(s, sep) for a one-character sep: always at least one element.
RECURSIVE Split(_, _)
Split(s, sep) ==
    LET i == IndexOf(s, sep)
    IN  IF i = 0 THEN <<s>> ELSE <<Take(s, i - 1)>> \o Split(Drop(s, i), sep)

\* strings.Join(elems, sep)
RECURSIVE Join(_, _)
Join(elems, sep) ==
    IF Len(elems) = 0 THEN Empty
    ELSE IF Len(elems) = 1 THEN elems[1]
    ELSE elems[1] \o <<sep>> \o Join(Tail(elems), sep)

\* strconv.Itoa, and fmt's %d and %v of an integral number.
RECURSIVE NatStr(_)
NatStr(n) == IF n < 10 THEN <<Digits[n + 1]>> ELSE NatStr(n \div 10) \o <<Digits[(n % 10) + 1]>>
Itoa(n) == IF n < 0 THEN <<"-">> \o NatStr(-n) ELSE NatStr(n)

\* Go's integer division truncates toward zero.
GoDiv(a, b) == IF a >= 0 THEN a \div b ELSE -((-a) \div b)

\* ------------------------------------------------------------------ time
\* time.Second, in clock units (milliseconds).
Second == 1000
Minute == 60 * Second
Hour == 60 * Minute
\* The clock steps a behaviour may take.
TickSteps == {1, 2 * Hour}

\* Not before: the deadline itself counts as past it.
AfterOrAt(t, u) == t >= u

\* time.Time.After
After(t, u) == t > u

\* time.ParseDuration's unit table, as <<numerator, denominator>> of a
\* millisecond; what is finer than the clock is truncated.
UnitNames == {<<"n", "s">>, <<"u", "s">>, <<"m", "s">>, <<"s">>, <<"m">>, <<"h">>}
UnitOf(u) ==
    IF u = <<"n", "s">> THEN <<1, 1000000>>
    ELSE IF u = <<"u", "s">> THEN <<1, 1000>>
    ELSE IF u = <<"m", "s">> THEN <<1, 1>>
    ELSE IF u = <<"s">> THEN <<Second, 1>>
    ELSE IF u = <<"m">> THEN <<Minute, 1>>
    ELSE <<Hour, 1>>

\* Length of the longest prefix of s whose characters all satisfy / all fail
\* the digit-or-dot test.
RECURSIVE DigitRun(_)
DigitRun(s) == IF s # Empty /\ IsDigit(s[1]) THEN 1 + DigitRun(Tail(s)) ELSE 0
RECURSIVE UnitRun(_)
UnitRun(s) == IF s # Empty /\ s[1] # "." /\ ~IsDigit(s[1]) THEN 1 + UnitRun(Tail(s)) ELSE 0
RECURSIVE DecVal(_)
DecVal(s) == IF s = Empty THEN 0 ELSE DecVal(Take(s, Len(s) - 1)) * 10 + DigitVal(s[Len(s)])
RECURSIVE Pow10(_)
Pow10(n) == IF n = 0 THEN 1 ELSE 10 * Pow10(n - 1)

\* The loop of time.ParseDuration over ([0-9]*(\.[0-9]*)?[a-z]+)+ :
\* [ok, d] with d the sum so far.
RECURSIVE DurationTerms(_, _)
DurationTerms(s, acc) ==
    IF s = Empty THEN [ok |-> TRUE, d |-> acc]
    ELSE IF ~(s[1] = "." \/ IsDigit(s[1])) THEN [ok |-> FALSE, d |-> 0]
    ELSE
      LET nv == DigitRun(s)
          v == DecVal(Take(s, nv))
          s1 == Drop(s, nv)
          dot == s1 # Empty /\ s1[1] = "."
          s2 == IF dot THEN Tail(s1) ELSE s1
          nf == IF dot THEN DigitRun(s2) ELSE 0
          f == DecVal(Take(s2, nf))
          s3 == Drop(s2, nf)
          nu == UnitRun(s3)
          u == Take(s3, nu)
      IN  IF nv = 0 /\ nf = 0 THEN [ok |-> FALSE, d |-> 0]
          ELSE IF nu = 0 \/ u \notin UnitNames THEN [ok |-> FALSE, d |-> 0]
          ELSE DurationTerms(Drop(s3, nu),
                 acc + ((v * UnitOf(u)[1]) \div UnitOf(u)[2])
                     + ((f * UnitOf(u)[1]) \div (Pow10(nf) * UnitOf(u)[2])))

\* time.ParseDuration(s): [ok, d].
ParseDuration(s) ==
    LET signed == s # Empty /\ s[1] \in {"-", "+"}
        neg == signed /\ s[1] = "-"
        body == IF signed THEN Tail(s) ELSE s
        r == DurationTerms(body, 0)
    IN  IF body = <<"0">> THEN [ok |-> TRUE, d |-> 0]
        ELSE IF body = Empty THEN [ok |-> FALSE, d |-> 0]
        ELSE IF r.ok /\ neg THEN [ok |-> TRUE, d |-> -r.d]
        ELSE r

\* ------------------------------------------------------------------ JSON values
\* A decoded JSON value (interface{}): absent or null, a string, a number.
JNil == [t |-> "nil"]
JStr(s) == [t |-> "string", s |-> s]
JNum(n) == [t |-> "number", n |-> n]

\* fmt.Sprintf("%v", v) of a decoded JSON value.
SprintV(v) ==
    IF v.t = "nil" THEN <<"<", "n", "i", "l", ">">>
    ELSE IF v.t = "string" THEN v.s
    ELSE Itoa(v.n)

\* ------------------------------------------------------------------ URLs
\* url.Parse(loc), as far as its host goes: [ok, host]. A URL that starts with
\* a colon has no scheme and is refused; after "scheme:" a "//" opens the
\* authority, which runs to the next slash.
ParseURL(loc) ==
    LET colon == IndexOf(loc, ":")
        slash == IndexOf(loc, "/")
        hasScheme == colon > 1 /\ (slash = 0 \/ colon < slash)
                     /\ \A i \in 1..(colon - 1) : loc[i] \in Letters
        rest == IF hasScheme THEN Drop(loc, colon) ELSE loc
        auth == IF HasPrefix(rest, <<"/", "/">>) THEN Drop(rest, 2) ELSE Empty
        stop == IndexOf(auth, "/")
    IN  IF colon = 1 THEN [ok |-> FALSE, host |-> Empty]
        ELSE [ok |-> TRUE, host |-> IF stop = 0 THEN auth ELSE Take(auth, stop - 1)]

\* endpoint(host, suffix)
endpoint(host, suffix) ==
    LET h1 == IF ~HasPrefix(host, <<"h", "t", "t", "p">>)
              THEN IF ~HasPrefix(host, <<"l", "o", "c", "a", "l", "h", "o", "s", "t">>)
                      /\ ~HasPrefix(host, <<"1", "2", "7", ".", "0", ".", "0", ".", "1">>)
                   THEN <<"h", "t", "t", "p", "s", ":", "/", "/">> \o host
                   ELSE <<"h", "t", "t", "p", ":", "/", "/">> \o host
              ELSE host
        h2 == IF ~HasSuffix(h1, <<"/">>) THEN h1 \o <<"/">> ELSE h1
    IN  h2 \o suffix

\* ------------------------------------------------------------------ inputs
\* Authenticator variants a client is built with (NewBasicAuthenticator,
\* NewInstanceAuthenticator, NewOAuthAuthenticator, NewTokenAuthenticator,
\* NewRL10Authenticator); NewSSAuthenticator wraps one of them.
Kinds == {"basic", "instance", "oauth", "token", "rl10"}
CookieKinds == {"basic", "instance"}

\* Credentials given at construction.
AccountIDs == {60073}
StaticToken == <<"t", "k">>
Secret == <<"s", "c">>

\* Hosts a caller passes to SetHost.
Hosts == {Us3, Single}
\* Cookie sets a session-creation response carries.
CookieSets == {<<>>, <<"a1", "a2">>, <<"b1">>}
\* Location headers of a login response ("" when absent).
Locations == {Empty, LocUs4, LocBad}

\* The (nil, err) of a failed round trip, and a response.
TransportError == [err |-> TRUE]
Response(status, location, cookies, body) ==
    [err |-> FALSE, status |-> status, location |-> location, cookies |-> cookies,
     body |-> body]
NoBody == [t |-> "none"]

CookieResponses ==
    {TransportError}
    \cup {Response(204, Empty, c, NoBody) : c \in CookieSets}
    \cup {Response(302, l, <<>>, NoBody) : l \in Locations}
    \cup {Response(401, Empty, <<>>, NoBody)}

\* Bodies of a token-exchange response: unreadable, not a JSON object, or an
\* object with its access_token and expires_in members.
AccessTokens == {JStr(<<"t", "1">>), JStr(<<"t", "2">>), JNil}
ExpiresIns == {JNum(3600), JNum(5), JNum(-3600), JNil, JStr(<<"x">>)}
ReadError == [t |-> "readerr"]
BadJSON == [t |-> "badjson"]
Session(tok, exp) == [t |-> "object", access_token |-> tok, expires_in |-> exp]
OAuthResponses ==
    {TransportError}
    \cup {Response(200, Empty, <<>>, b) : b \in {ReadError, BadJSON}}
    \cup {Response(401, Empty, <<>>, Session(JNil, JNil))}
    \cup {Response(200, Empty, <<>>, Session(a, e)) : a \in AccessTokens, e \in ExpiresIns}

\* Answers to the Self-Service session bootstrap.
\* The status codes extractRedirectHost is tried on: 200, 204 and those
\* around 300 and 399.
StatusCodes == {200, 204} \cup (298 .. 302) \cup (397 .. 400)

BootResponses ==
    {TransportError, Response(200, Empty, <<>>, NoBody), Response(401, Empty, <<>>, NoBody)}

\* A response body of plain text: what ioutil.ReadAll returns of it, and
\* whether ReadAll returns an error with it.
Text(read, failed) == [t |-> "text", read |-> read, failed |-> failed]

\* Answers to the test request of CanAuthenticate.
ProbeResponses ==
    {TransportError,
     Response(200, Empty, <<>>, Text(<<"o", "k">>, FALSE)),
     Response(401, Empty, <<>>, Text(<<"n", "o">>, FALSE)),
     Response(401, Empty, <<>>, Text(<<"n">>, TRUE))}

\* ------------------------------------------------------------------ requests
\* dumpClient.Do(req): what the round trip can return. A request whose URL
\* has no host never leaves the client: the transport fails.
Do(req, responses) == IF req.URLHost = <<>> THEN {[err |-> TRUE]} ELSE responses

\* http.NewRequest(method, url, body): Host and URL.Host are the URL's host.
NewRequest(kind, method, url) ==
    [kind |-> kind, method |-> method, url |-> url,
     Host |-> ParseURL(url).host, URLHost |-> ParseURL(url).host,
     Cookies |-> <<>>, XAccount |-> Empty, Authorization |-> Empty,
     XRLLSecret |-> Empty, XApiVersion |-> "", ContentType |-> ""]
NoRequest == [kind |-> "none"]

\* basicLoginRequestBuilder.BuildLoginRequest / instanceLoginRequestBuilder.BuildLoginRequest
BuildLoginRequest(k, host) ==
    LET h == IF host = Empty THEN Us3 ELSE host
        path == IF k = "basic"
                THEN <<"a", "p", "i", "/", "s", "e", "s", "s", "i", "o", "n", "s">>
                ELSE <<"a", "p", "i", "/", "s", "e", "s", "s", "i", "o", "n", "/",
                       "i", "n", "s", "t", "a", "n", "c", "e">>
    IN  [NewRequest("login", "POST", endpoint(h, path))
           EXCEPT !.XApiVersion = "1.5", !.ContentType = "application/json"]

\* oAuthSigner.BuildLoginRequest
OAuthBuildLoginRequest(host) ==
    [NewRequest("token", "POST",
                endpoint(host, <<"a", "p", "i", "/", "o", "a", "u", "t", "h", "2">>))
       EXCEPT !.XApiVersion = "1.5", !.ContentType = "application/json"]

\* extractRedirectHost with 399 taken for a redirect status.
extractRedirectHostTo399(resp) ==
    IF resp.status > 299 /\ resp.status <= 399 /\ resp.location # Empty
    THEN LET p == ParseURL(resp.location)
         IN  IF ~p.ok THEN [ok |-> FALSE, host |-> Empty] ELSE [ok |-> TRUE, host |-> p.host]
    ELSE [ok |-> TRUE, host |-> Empty]

\* extractRedirectHost(resp) of a non-nil response: [ok, host].
extractRedirectHost(resp) ==
    IF resp.status > 299 /\ resp.status < 399 /\ resp.location # Empty
    THEN LET p == ParseURL(resp.location)
         IN  IF ~p.ok THEN [ok |-> FALSE, host |-> Empty] ELSE [ok |-> TRUE, host |-> p.host]
    ELSE [ok |-> TRUE, host |-> Empty]

\* The derivation with the last dash-segment replaced, not the one before it.
SSHostLastSegment(host) ==
    LET urlElems == Split(host, ".")
        elems == Split(urlElems[1], "-")
    IN  IF Len(elems) < 2 THEN host
        ELSE Join(<<Join([elems EXCEPT ![Len(elems)] =
                            <<"s", "e", "l", "f", "s", "e", "r", "v", "i", "c", "e">>], "-")>>
                  \o Tail(urlElems), ".")

\* The Self-Service host ssAuthenticator.SetHost computes from the login host.
SSHost(host) ==
    LET urlElems == Split(host, ".")
        elems == Split(urlElems[1], "-")
    IN  IF Len(elems) < 2 THEN host
        ELSE Join(<<Join([elems EXCEPT ![Len(elems) - 1] =
                            <<"s", "e", "l", "f", "s", "e", "r", "v", "i", "c", "e">>], "-")>>
                  \o Tail(urlElems), ".")

\* ------------------------------------------------------------------ state
VARIABLES
    kind,       \* the variant of the base authenticator
    accountID,  \* the account id given at construction
    nesting,    \* how many ssAuthenticators are around the base authenticator
    cs,         \* cookieSigner: cookies, host, refreshAt
    oa,         \* oAuthSigner: accessToken, host, refreshAt
    ta,         \* tokenAuthenticator: host
    rl,         \* rl10Authenticator: host
    ss,         \* ssAuthenticator: host, refreshAt
    now,        \* time.Now()
    gr,         \* per goroutine: where its Sign call stands, its requests, what it saw
    ticks,      \* clock advances so far
    calls,      \* Sign calls started so far
    last,       \* "nil" right after a Sign call returned nil, "none" otherwise and once time has passed
    fn,         \* the helper function applied last, what it was given and what it returned
    parsed,     \* the command being parsed: the Params taken so far, the PayloadParams built from them
    dump        \* the dump Format of the base authenticator and of the ssAuthenticator's client

vars == <<kind, accountID, nesting, cs, oa, ta, rl, ss, now, gr, ticks, calls, last, fn, parsed, dump>>

\* The client's authenticator is an ssAuthenticator around the base one.
wrapped == nesting >= 1

\* No helper function applied yet.
NoCall == [name |-> "none", in |-> <<>>, out |-> <<>>]

\* A command with no parameters yet: rsapi.ApiParams{} as its payload.
NoParams == [Params |-> <<>>, PayloadParams |-> <<>>]

\* What CanAuthenticate returns: nil, or an error, which for a response with a
\* status other than 200 is made of that status and a body.
NoResult == [err |-> FALSE, why |-> "", status |-> 0, body |-> Empty]
Failure(why) == [err |-> TRUE, why |-> why, status |-> 0, body |-> Empty]

\* What a goroutine holds between calls, before its first call.
IdleGoroutine ==
    [pc |-> "idle", mode |-> "direct", req |-> NoRequest, areq |-> NoRequest,
     resp |-> [err |-> FALSE, status |-> 0, location |-> Empty, cookies |-> <<>>,
               body |-> NoBody],
     res |-> "none", err |-> "", sent |-> <<>>, innerErrs |-> 0,
     op |-> "sign", out |-> NoResult, client |-> FALSE, given |-> Empty,
     prev |-> "none",
     pre |-> [cs |-> [cookies |-> <<>>, host |-> Empty, refreshAt |-> 0],
              oa |-> [accessToken |-> Empty, host |-> Empty, refreshAt |-> 0],
              ss |-> [host |-> Empty, refreshAt |-> 0], now |-> 0]]

\* The state after NewBasicAuthenticator / NewInstanceAuthenticator /
\* NewOAuthAuthenticator / NewTokenAuthenticator / NewRL10Authenticator at time 0.
Init ==
    /\ kind \in Kinds
    /\ accountID \in AccountIDs
    /\ nesting = 0
    /\ now = 0
    /\ cs = [cookies |-> <<>>, host |-> Empty, refreshAt |-> 0 - 2 * Minute]
    /\ oa = [accessToken |-> Empty, host |-> Empty, refreshAt |-> 0 - 2 * Minute]
    /\ ta = [host |-> Empty]
    /\ rl = [host |-> Empty]
    /\ ss = [host |-> Empty, refreshAt |-> 0]
    /\ gr = [p \in Procs |-> IdleGoroutine]
    /\ ticks = 0
    /\ calls = 0
    /\ last = "none"
    /\ fn = NoCall
    /\ parsed = NoParams
    /\ dump = [base |-> "NoDump", ss |-> "NoDump"]

\* A panic takes the program down.
Crashed == \E p \in Procs : gr[p].pc = "crashed"
AllIdle == \A p \in Procs : gr[p].pc = "idle"

\* The host the client sends its API requests to: the one its authenticator
\* was bound to (rsapi.New is given the host SetHost was).
ClientHost ==
    IF wrapped THEN ss.host
    ELSE IF kind \in CookieKinds THEN cs.host
    ELSE IF kind = "oauth" THEN oa.host
    ELSE IF kind = "token" THEN ta.host
    ELSE rl.host

\* ------------------------------------------------------------------ construction
\* A new ssAuthenticator around whatever it is given.
WrapAgain(n, s, t) ==
    [nesting |-> n + 1, ss |-> [host |-> Empty, refreshAt |-> t - 2 * Minute]]

\* NewSSAuthenticator(auther, accountID) at time t, for an auther under n
\* ssAuthenticators, the outermost being s: auther itself when it is an
\* ssAuthenticator, a new ssAuthenticator around it when not.
Wrap(n, s, t) ==
    IF n >= 1 THEN [nesting |-> n, ss |-> s]
    ELSE [nesting |-> n + 1, ss |-> [host |-> Empty, refreshAt |-> t - 2 * Minute]]

\* NewSSAuthenticator(auther, accountID) before the first call.
NewSSAuthenticator ==
    /\ AllIdle /\ calls = 0
    /\ nesting' = Wrap(nesting, ss, now).nesting
    /\ ss' = Wrap(nesting, ss, now).ss
    /\ UNCHANGED <<dump, parsed, fn, kind, accountID, cs, oa, ta, rl, now, gr, ticks, calls, last>>

\* A host binding that also ends the session.
BaseSetHostExpiring(host) ==
    /\ cs' = IF kind \in CookieKinds
             THEN [cs EXCEPT !.host = host, !.refreshAt = now - 2 * Minute] ELSE cs
    /\ oa' = IF kind = "oauth"
             THEN [oa EXCEPT !.host = host, !.refreshAt = now - 2 * Minute] ELSE oa
    /\ ta' = IF kind = "token" THEN [ta EXCEPT !.host = host] ELSE ta
    /\ rl' = IF kind = "rl10" THEN [rl EXCEPT !.host = host] ELSE rl

\* cookieSigner.SetHost, oAuthSigner.SetHost, tokenAuthenticator.SetHost,
\* rl10Authenticator.SetHost on the base authenticator.
BaseSetHost(host) ==
    /\ cs' = IF kind \in CookieKinds THEN [cs EXCEPT !.host = host] ELSE cs
    /\ oa' = IF kind = "oauth" THEN [oa EXCEPT !.host = host] ELSE oa
    /\ ta' = IF kind = "token" THEN [ta EXCEPT !.host = host] ELSE ta
    /\ rl' = IF kind = "rl10" THEN [rl EXCEPT !.host = host] ELSE rl

\* Request/response dump formats: off and on.
Formats == {"NoDump", "Debug"}

\* EnableDump(format) on the client's authenticator: the Format of its client
\* (its dump field for the token and RL10 authenticators); an ssAuthenticator
\* sets its own client's and passes the call on.
EnableDump(format) ==
    /\ dump' = IF wrapped THEN [base |-> format, ss |-> format]
               ELSE [dump EXCEPT !.base = format]
    /\ UNCHANGED <<parsed, kind, accountID, nesting, cs, oa, ta, rl, ss, now, gr, ticks, calls, last>>

\* A chained signer that keeps the Self-Service host it was bound to first.
ChainedSetHostOnce(s, host) ==
    IF wrapped /\ s.host = Empty THEN [s EXCEPT !.host = SSHost(host)] ELSE s

\* ssAuthenticator.SetHost: the Self-Service host computed from the host given.
ChainedSetHost(s, host) ==
    IF wrapped THEN [s EXCEPT !.host = SSHost(host)] ELSE s

\* SetHost on the client's authenticator; ssAuthenticator.SetHost binds the
\* inner authenticator and computes the Self-Service host.
SetHost(host) ==
    /\ ~Crashed
    /\ BaseSetHost(host)
    /\ ss' = ChainedSetHost(ss, host)
    /\ UNCHANGED <<dump, parsed, fn, kind, accountID, nesting, now, gr, ticks, calls, last>>

\* Time passes.
Tick ==
    /\ ticks < MaxTicks
    /\ \E d \in TickSteps : now' = now + d
    /\ ticks' = ticks + 1
    /\ last' = "none"
    /\ UNCHANGED <<dump, parsed, fn, kind, accountID, nesting, cs, oa, ta, rl, ss, gr, calls>>

\* ------------------------------------------------------------------ Sign
Snapshot == [cs |-> cs, oa |-> oa, ss |-> ss, now |-> now]

\* The request the base authenticator is signing: the Self-Service bootstrap
\* request (ssAuthenticator.Sign's authReq) or the caller's.
Target(g) == IF g.mode = "boot" THEN g.areq ELSE g.req
WithTarget(g, r) == IF g.mode = "boot" THEN [g EXCEPT !.areq = r] ELSE [g EXCEPT !.req = r]

\* A nil dereference: the goroutine panics.
Panic(g) == [g EXCEPT !.pc = "crashed", !.res = "panic", !.err = "nil dereference"]

\* ssAuthenticator.Sign after a.auther.Sign(authReq): the inner result is
\* dropped, the Content-Type set and the bootstrap request sent.
SSAfterBootSign(g, result) ==
    LET authReq == [g.areq EXCEPT !.ContentType = "application/json"]
    IN  [g EXCEPT !.areq = authReq, !.pc = "ss_do", !.sent = Append(@, authReq),
                  !.innerErrs = IF result = "err" THEN @ + 1 ELSE @]

\* The caller's request returned with the Host it came with.
SSAfterFinalSignKeepHost(g, result) ==
    [g EXCEPT !.req = [@ EXCEPT !.XApiVersion = "1.0"],
              !.pc = "done", !.res = "nil", !.err = "",
              !.innerErrs = IF result = "err" THEN @ + 1 ELSE @]

\* ssAuthenticator.Sign after a.auther.Sign(r): the inner result is dropped,
\* the version header and the Host set, nil returned.
SSAfterFinalSign(g, result) ==
    [g EXCEPT !.req = [@ EXCEPT !.XApiVersion = "1.0", !.Host = ss.host],
              !.pc = "done", !.res = "nil", !.err = "",
              !.innerErrs = IF result = "err" THEN @ + 1 ELSE @]

\* The base authenticator's Sign returns result to whoever called it.
Finish(g, result, why) ==
    IF g.mode = "direct" THEN [g EXCEPT !.pc = "done", !.res = result, !.err = why]
    ELSE IF g.mode = "boot" THEN SSAfterBootSign(g, result)
    ELSE SSAfterFinalSign(g, result)

\* A goroutine calls Sign(req) on the client's authenticator.
StartSign(p) ==
    /\ ~Crashed /\ gr[p].pc = "idle" /\ calls < MaxCalls
    /\ calls' = calls + 1
    /\ gr' = [gr EXCEPT ![p] =
                [IdleGoroutine EXCEPT
                   !.pc = IF wrapped THEN "ss_check" ELSE "check",
                   !.mode = IF wrapped THEN "final" ELSE "direct",
                   !.req = NewRequest("api", "GET", endpoint(ClientHost, <<"a", "p", "i", "/", "x">>)),
                   !.pre = Snapshot, !.prev = last]]
    /\ UNCHANGED <<dump, parsed, fn, kind, accountID, nesting, cs, oa, ta, rl, ss, now, ticks, last>>

\* Sign has returned to the caller, who is done with the request.
Return(p) ==
    /\ \/ gr[p].pc = "done" /\ gr[p].op = "sign"
       \/ gr[p].pc = "pdone" /\ gr[p].op = "probe"
       \/ gr[p].pc = "ndone"
    /\ gr' = [gr EXCEPT ![p] = IdleGoroutine]
    /\ last' = IF gr[p].op = "sign" /\ gr[p].res = "nil" THEN "nil" ELSE "none"
    /\ UNCHANGED <<dump, parsed, fn, kind, accountID, nesting, cs, oa, ta, rl, ss, now, ticks, calls>>

\* ---- cookieSigner
\* refresh storing the deadline before it looks at the status.
refreshAdvancingOnFailure(s, resp, t) ==
    IF resp.status # 204 THEN [ok |-> FALSE, s |-> [s EXCEPT !.refreshAt = t + 2 * Hour]]
    ELSE [ok |-> TRUE, s |-> [s EXCEPT !.cookies = resp.cookies, !.refreshAt = t + 2 * Hour]]

\* refresh with a session life of one hour.
refreshOneHour(s, resp, t) ==
    IF resp.status # 204 THEN [ok |-> FALSE, s |-> s]
    ELSE [ok |-> TRUE, s |-> [s EXCEPT !.cookies = resp.cookies, !.refreshAt = t + Hour]]

\* refresh storing the cookies of the response before it tests the status.
refreshStoringFirst(s, resp, t) ==
    IF resp.status # 204 THEN [ok |-> FALSE, s |-> [s EXCEPT !.cookies = resp.cookies]]
    ELSE [ok |-> TRUE, s |-> [s EXCEPT !.cookies = resp.cookies, !.refreshAt = t + 2 * Hour]]

\* refresh taking a 204 that sets no cookie for a failed login.
refreshRequiringCookies(s, resp, t) ==
    IF resp.status # 204 \/ resp.cookies = <<>> THEN [ok |-> FALSE, s |-> s]
    ELSE [ok |-> TRUE, s |-> [s EXCEPT !.cookies = resp.cookies, !.refreshAt = t + 2 * Hour]]

\* cookieSigner.refresh(resp) at time t: [ok, s].
refresh(s, resp, t) ==
    IF resp.status # 204 THEN [ok |-> FALSE, s |-> s]
    ELSE [ok |-> TRUE, s |-> [s EXCEPT !.cookies = resp.cookies, !.refreshAt = t + 2 * Hour]]

\* The redirect followed with the signer left bound to the host it had.
RebindNot(s, host) == s

\* cookieSigner.Sign on a redirect: s.host = host.
Rebind(s, host) == [s EXCEPT !.host = host]

\* cookieSigner.Sign from a login response that is not a redirect on.
CookieRefreshStep(p, resp) ==
    LET r == refresh(cs, resp, now)
    IN  /\ cs' = IF r.ok THEN cs ELSE r.s
        /\ gr' = [gr EXCEPT ![p] =
                    IF r.ok THEN [gr[p] EXCEPT !.pc = "store", !.resp = resp]
                    ELSE Finish([gr[p] EXCEPT !.resp = resp], "err", "status")]

\* cookieSigner.refresh on a 204: the stores of s.cookies and s.refreshAt are
\* complete. No lock is held from the status test to here.
CookieSignStore(p) ==
    /\ gr[p].pc = "store"
    /\ cs' = refresh(cs, gr[p].resp, now).s
    /\ gr' = [gr EXCEPT ![p].pc = "attach"]
    /\ UNCHANGED <<dump, parsed, fn, kind, accountID, nesting, oa, ta, rl, ss, now, ticks, calls, last>>

\* cookieSigner.Sign: the freshness test and the first login request.
CookieSignCheck(p) ==
    /\ gr[p].pc = "check" /\ kind \in CookieKinds
    /\ gr' = [gr EXCEPT ![p] =
                IF After(now, cs.refreshAt)
                THEN [gr[p] EXCEPT !.pc = "do1",
                                   !.sent = Append(@, BuildLoginRequest(kind, cs.host))]
                ELSE [gr[p] EXCEPT !.pc = "attach"]]
    /\ UNCHANGED <<dump, parsed, fn, kind, accountID, nesting, cs, oa, ta, rl, ss, now, ticks, calls, last>>

\* cookieSigner.Sign: the first login request returns. Its error is
\* overwritten by extractRedirectHost's, which reads the status of resp: of
\* a nil resp when the round trip failed.
CookieSignResponse(p) ==
    /\ gr[p].pc = "do1"
    /\ \E resp \in Do(gr[p].sent[Len(gr[p].sent)], CookieResponses) :
         IF resp.err
         THEN /\ gr' = [gr EXCEPT ![p] = Panic([gr[p] EXCEPT !.resp = resp])]
              /\ cs' = cs
         ELSE LET rh == extractRedirectHost(resp)
                  g == gr[p]
              IN  IF ~rh.ok
                  THEN /\ gr' = [gr EXCEPT ![p] = Finish([g EXCEPT !.resp = resp], "err", "location")]
                       /\ cs' = cs
                  ELSE IF rh.host # Empty
                  THEN /\ cs' = Rebind(cs, rh.host)
                       /\ gr' = [gr EXCEPT ![p] =
                                   [WithTarget(g, [Target(g) EXCEPT !.Host = rh.host,
                                                                    !.URLHost = rh.host])
                                      EXCEPT !.pc = "do2", !.resp = resp,
                                             !.sent = Append(@, BuildLoginRequest(kind, rh.host))]]
                  ELSE CookieRefreshStep(p, resp)
    /\ UNCHANGED <<dump, parsed, fn, kind, accountID, nesting, oa, ta, rl, ss, now, ticks, calls, last>>

\* A reissued login answered with a redirect is reissued once more.
CookieSignResponse2Hopping(p) ==
    /\ gr[p].pc = "do2"
    /\ \E resp \in Do(gr[p].sent[Len(gr[p].sent)], CookieResponses) :
         IF resp.err
         THEN /\ gr' = [gr EXCEPT ![p] = Finish([gr[p] EXCEPT !.resp = resp], "err", "transport")]
              /\ cs' = cs
         ELSE IF extractRedirectHost(resp).ok /\ extractRedirectHost(resp).host # Empty
                 /\ Len(gr[p].sent) < 3
         THEN /\ cs' = Rebind(cs, extractRedirectHost(resp).host)
              /\ gr' = [gr EXCEPT ![p] =
                          [gr[p] EXCEPT !.resp = resp,
                                        !.sent = Append(@, BuildLoginRequest(kind,
                                                             extractRedirectHost(resp).host))]]
         ELSE CookieRefreshStep(p, resp)
    /\ UNCHANGED <<dump, parsed, fn, kind, accountID, nesting, oa, ta, rl, ss, now, ticks, calls, last>>

\* cookieSigner.Sign: the login request reissued against the redirect host returns.
CookieSignResponse2(p) ==
    /\ gr[p].pc = "do2"
    /\ \E resp \in Do(gr[p].sent[Len(gr[p].sent)], CookieResponses) :
         IF resp.err
         THEN /\ gr' = [gr EXCEPT ![p] = Finish([gr[p] EXCEPT !.resp = resp], "err", "transport")]
              /\ cs' = cs
         ELSE CookieRefreshStep(p, resp)
    /\ UNCHANGED <<dump, parsed, fn, kind, accountID, nesting, oa, ta, rl, ss, now, ticks, calls, last>>

\* The account header set and the cookies left out.
AttachHeaderOnly(r, cookies, id) == [r EXCEPT !.XAccount = Itoa(id)]

\* cookieSigner.Sign: req.AddCookie for each cookie, then the X-Account header.
Attach(r, cookies, id) ==
    [r EXCEPT !.Cookies = @ \o cookies, !.XAccount = Itoa(id)]

\* What a load of the slice s.cookies can give while another goroutine's
\* store of it is in progress. A slice is a pointer and a length, loaded and
\* stored word by word: the load gives the old slice, the new one, or the
\* pointer of one with the length of the other. The latter is a prefix of one
\* of them when the length fits, and runs past the end of the array when not.
TornCookies(old, new) ==
    {[ok |-> TRUE, cookies |-> old], [ok |-> TRUE, cookies |-> new]}
        \cup {IF Len(old) <= Len(new) THEN [ok |-> TRUE, cookies |-> Take(new, Len(old))]
              ELSE [ok |-> FALSE, cookies |-> <<>>]}
        \cup {IF Len(new) <= Len(old) THEN [ok |-> TRUE, cookies |-> Take(old, Len(new))]
              ELSE [ok |-> FALSE, cookies |-> <<>>]}

\* The goroutines other than p whose store of s.cookies is in progress.
Writers(p) == {q \in Procs \ {p} : gr[q].pc = "store"}

\* cookieSigner.Sign: what `range s.cookies` can load in goroutine p.
CookiesRead(p) ==
    {[ok |-> TRUE, cookies |-> cs.cookies]}
        \cup UNION {TornCookies(cs.cookies, gr[q].resp.cookies) : q \in Writers(p)}

\* cookieSigner.Sign: the cookies and the account header. AddCookie on what
\* lies past the end of the array dereferences no cookie.
CookieSignAttach(p) ==
    /\ gr[p].pc = "attach" /\ kind \in CookieKinds
    /\ \E c \in CookiesRead(p) :
         gr' = [gr EXCEPT ![p] =
                  IF c.ok
                  THEN Finish(WithTarget(gr[p], Attach(Target(gr[p]), c.cookies, accountID)),
                              "nil", "")
                  ELSE Panic(gr[p])]
    /\ UNCHANGED <<dump, parsed, fn, kind, accountID, nesting, cs, oa, ta, rl, ss, now, ticks, calls, last>>

\* ---- oAuthSigner
\* The decoding with the result of the type assertion ignored: a missing
\* access_token reads as the empty string.
OAuthDecodeUnchecked(resp) ==
    IF resp.err THEN [ok |-> FALSE, why |-> "transport", token |-> Empty]
    ELSE IF resp.body.t = "readerr" THEN [ok |-> FALSE, why |-> "body", token |-> Empty]
    ELSE IF resp.status # 200 THEN [ok |-> FALSE, why |-> "status", token |-> Empty]
    ELSE IF resp.body.t # "object" THEN [ok |-> FALSE, why |-> "json", token |-> Empty]
    ELSE [ok |-> TRUE, why |-> "",
          token |-> IF resp.body.access_token.t = "string"
                    THEN resp.body.access_token.s ELSE Empty]

\* oAuthSigner.Sign from the token response to the access token: [ok, why, token].
OAuthDecode(resp) ==
    IF resp.err THEN [ok |-> FALSE, why |-> "transport", token |-> Empty]
    ELSE IF resp.body.t = "readerr" THEN [ok |-> FALSE, why |-> "body", token |-> Empty]
    ELSE IF resp.status # 200 THEN [ok |-> FALSE, why |-> "status", token |-> Empty]
    ELSE IF resp.body.t # "object" THEN [ok |-> FALSE, why |-> "json", token |-> Empty]
    ELSE IF resp.body.access_token.t # "string"
    THEN [ok |-> FALSE, why |-> "access_token", token |-> Empty]
    ELSE [ok |-> TRUE, why |-> "", token |-> resp.body.access_token.s]

\* The duration of the session's expires_in: [ok, d].
OAuthDuration(session) == ParseDuration(SprintV(session.expires_in) \o <<"s">>)

\* The deadline at the token's full life.
OAuthRefreshAtFullLife(t, d) == t + d

\* The deadline oAuthSigner.Sign stores at time t for a token that lives d.
OAuthRefreshAt(t, d) == t + GoDiv(d, 2)

\* oAuthSigner.Sign: the freshness test and the token request.
OAuthSignCheck(p) ==
    /\ gr[p].pc = "check" /\ kind = "oauth"
    /\ gr' = [gr EXCEPT ![p] =
                IF After(now, oa.refreshAt)
                THEN [gr[p] EXCEPT !.pc = "odo",
                                   !.sent = Append(@, OAuthBuildLoginRequest(oa.host))]
                ELSE [gr[p] EXCEPT !.pc = "attach"]]
    /\ UNCHANGED <<dump, parsed, fn, kind, accountID, nesting, cs, oa, ta, rl, ss, now, ticks, calls, last>>

\* oAuthSigner.Sign: the token request returns; the access token is stored.
OAuthSignResponse(p) ==
    /\ gr[p].pc = "odo"
    /\ \E resp \in Do(gr[p].sent[Len(gr[p].sent)], OAuthResponses) :
         LET r == OAuthDecode(resp)
             g == [gr[p] EXCEPT !.resp = resp]
         IN  IF ~r.ok
             THEN /\ gr' = [gr EXCEPT ![p] = Finish(g, "err", r.why)]
                  /\ oa' = oa
             ELSE /\ gr' = [gr EXCEPT ![p] = [g EXCEPT !.pc = "oparse"]]
                  /\ oa' = [oa EXCEPT !.accessToken = r.token]
    /\ UNCHANGED <<dump, parsed, fn, kind, accountID, nesting, cs, ta, rl, ss, now, ticks, calls, last>>

\* oAuthSigner.Sign: the duration is parsed and the deadline stored.
OAuthSignExpiry(p) ==
    /\ gr[p].pc = "oparse"
    /\ LET d == OAuthDuration(gr[p].resp.body)
       IN  IF ~d.ok
           THEN /\ gr' = [gr EXCEPT ![p] = Finish(gr[p], "err", "expires_in")]
                /\ oa' = oa
           ELSE /\ gr' = [gr EXCEPT ![p] = [gr[p] EXCEPT !.pc = "attach"]]
                /\ oa' = [oa EXCEPT !.refreshAt = OAuthRefreshAt(now, d.d)]
    /\ UNCHANGED <<dump, parsed, fn, kind, accountID, nesting, cs, ta, rl, ss, now, ticks, calls, last>>

\* oAuthSigner.Sign: the bearer header.
OAuthSignAttach(p) ==
    /\ gr[p].pc = "attach" /\ kind = "oauth"
    /\ gr' = [gr EXCEPT ![p] =
                Finish(WithTarget(gr[p], [Target(gr[p]) EXCEPT
                          !.Authorization = <<"B", "e", "a", "r", "e", "r", " ">> \o oa.accessToken]),
                       "nil", "")]
    /\ UNCHANGED <<dump, parsed, fn, kind, accountID, nesting, cs, oa, ta, rl, ss, now, ticks, calls, last>>

\* ---- tokenAuthenticator
\* The token with no scheme before it.
BearerBare(token) == token

\* "Bearer " + t.token
Bearer(token) == <<"B", "e", "a", "r", "e", "r", " ">> \o token

TokenSign(p) ==
    /\ gr[p].pc = "check" /\ kind = "token"
    /\ gr' = [gr EXCEPT ![p] =
                Finish(WithTarget(gr[p], [Target(gr[p]) EXCEPT
                          !.Authorization = Bearer(StaticToken)]),
                       "nil", "")]
    /\ UNCHANGED <<dump, parsed, fn, kind, accountID, nesting, cs, oa, ta, rl, ss, now, ticks, calls, last>>

\* ---- rl10Authenticator
RL10Sign(p) ==
    /\ gr[p].pc = "check" /\ kind = "rl10"
    /\ gr' = [gr EXCEPT ![p] =
                Finish(WithTarget(gr[p], [Target(gr[p]) EXCEPT !.XRLLSecret = Secret]),
                       "nil", "")]
    /\ UNCHANGED <<dump, parsed, fn, kind, accountID, nesting, cs, oa, ta, rl, ss, now, ticks, calls, last>>

\* ---- ssAuthenticator
\* ssAuthenticator.Sign: the freshness test; when stale, the bootstrap request
\* is built and handed to the inner authenticator to sign.
SSSignCheck(p) ==
    /\ gr[p].pc = "ss_check"
    /\ gr' = [gr EXCEPT ![p] =
                IF After(now, ss.refreshAt)
                THEN [gr[p] EXCEPT
                        !.pc = "check", !.mode = "boot",
                        !.areq = NewRequest("boot", "GET",
                                   endpoint(ss.host,
                                     <<"a", "p", "i", "/", "c", "a", "t", "a", "l", "o", "g", "/",
                                       "n", "e", "w", "_", "s", "e", "s", "s", "i", "o", "n", "?",
                                       "a", "c", "c", "o", "u", "n", "t", "_", "i", "d", "=">>
                                     \o Itoa(accountID)))]
                ELSE [gr[p] EXCEPT !.pc = "check", !.mode = "final"]]
    /\ UNCHANGED <<dump, parsed, fn, kind, accountID, nesting, cs, oa, ta, rl, ss, now, ticks, calls, last>>

\* ssAuthenticator.Sign: the bootstrap request returns; whatever its status,
\* the deadline is set and the caller's request handed to the inner authenticator.
SSSignResponse(p) ==
    /\ gr[p].pc = "ss_do"
    /\ \E resp \in Do(gr[p].areq, BootResponses) :
         IF resp.err
         THEN /\ gr' = [gr EXCEPT ![p] = [gr[p] EXCEPT !.pc = "done", !.res = "err",
                                                       !.err = "transport", !.resp = resp]]
              /\ ss' = ss
         ELSE /\ gr' = [gr EXCEPT ![p] = [gr[p] EXCEPT !.pc = "check", !.mode = "final",
                                                       !.resp = resp]]
              /\ ss' = [ss EXCEPT !.refreshAt = now + 2 * Hour]
    /\ UNCHANGED <<dump, parsed, fn, kind, accountID, nesting, cs, oa, ta, rl, now, ticks, calls, last>>

\* ------------------------------------------------------------------ CanAuthenticate
\* The test request with the instance-facing path kept for the RL10
\* authenticator alone.
ProbeRequestInstanceForRL10Only(host) ==
    IF wrapped
    THEN [NewRequest("probe", "GET",
            endpoint(host, <<"a", "p", "i", "/", "c", "a", "t", "a", "l", "o", "g", "/",
                             "a", "c", "c", "o", "u", "n", "t", "s", "/">> \o Itoa(accountID)
                           \o <<"/", "u", "s", "e", "r", "_", "p", "r", "e", "f", "e", "r",
                                "e", "n", "c", "e", "s">>))
            EXCEPT !.XApiVersion = "1.0"]
    ELSE [NewRequest("probe", "GET",
            endpoint(host, IF kind = "rl10"
                           THEN <<"a", "p", "i", "/", "u", "s", "e", "r", "_", "d", "a", "t", "a">>
                           ELSE <<"a", "p", "i", "/", "s", "e", "s", "s", "i", "o", "n", "s">>))
            EXCEPT !.XApiVersion = "1.5"]

\* The test request: testAuth's GET api/user_data (instance facing) or
\* api/sessions with X-Api-Version 1.5, ssAuthenticator.CanAuthenticate's GET
\* api/catalog/accounts/<id>/user_preferences with X-Api-Version 1.0.
ProbeRequest(host) ==
    IF wrapped
    THEN [NewRequest("probe", "GET",
            endpoint(host, <<"a", "p", "i", "/", "c", "a", "t", "a", "l", "o", "g", "/",
                             "a", "c", "c", "o", "u", "n", "t", "s", "/">> \o Itoa(accountID)
                           \o <<"/", "u", "s", "e", "r", "_", "p", "r", "e", "f", "e", "r",
                                "e", "n", "c", "e", "s">>))
            EXCEPT !.XApiVersion = "1.0"]
    ELSE [NewRequest("probe", "GET",
            endpoint(host, IF kind \in {"instance", "rl10"}
                           THEN <<"a", "p", "i", "/", "u", "s", "e", "r", "_", "d", "a", "t", "a">>
                           ELSE <<"a", "p", "i", "/", "s", "e", "s", "s", "i", "o", "n", "s">>))
            EXCEPT !.XApiVersion = "1.5"]

\* CanAuthenticate up to its call of Sign, on an authenticator bound to host:
\* no host is an error at once.
ProbeCall(op, host, snap) ==
    IF host = Empty
    THEN [IdleGoroutine EXCEPT !.pc = "pdone", !.op = op, !.out = Failure("host"),
                               !.pre = snap]
    ELSE [IdleGoroutine EXCEPT !.pc = IF wrapped THEN "ss_check" ELSE "check",
                               !.mode = IF wrapped THEN "final" ELSE "direct",
                               !.req = ProbeRequest(host), !.op = op, !.pre = snap]

\* A goroutine calls CanAuthenticate on the client's authenticator.
StartProbe(p) ==
    /\ ~Crashed /\ gr[p].pc = "idle" /\ calls < MaxCalls
    /\ calls' = calls + 1
    /\ gr' = [gr EXCEPT ![p] = ProbeCall("probe", ClientHost, Snapshot)]
    /\ UNCHANGED <<dump, parsed, fn, kind, accountID, nesting, cs, oa, ta, rl, ss, now, ticks, last>>

\* testAuth after auth.Sign(req): its error is returned. ssAuthenticator's
\* CanAuthenticate after a.Sign(req): the result is dropped.
ProbeAfterSign(p) ==
    /\ gr[p].pc = "done" /\ gr[p].op \in {"probe", "new"}
    /\ gr' = [gr EXCEPT ![p] =
                IF ~wrapped /\ gr[p].res = "err"
                THEN [gr[p] EXCEPT !.pc = "pdone", !.out = Failure(gr[p].err)]
                ELSE [gr[p] EXCEPT !.pc = "pdo"]]
    /\ UNCHANGED <<dump, parsed, fn, kind, accountID, nesting, cs, oa, ta, rl, ss, now, ticks, calls, last>>

\* The error for a response with a status other than 200: the body is put in
\* when ioutil.ReadAll returned an error, and is what was read until then.
ProbeError(resp) ==
    [err |-> TRUE, why |-> "response", status |-> resp.status,
     body |-> IF resp.body.failed THEN resp.body.read ELSE Empty]

\* The round trip of the test request and what CanAuthenticate makes of it.
ProbeResponse(p) ==
    /\ gr[p].pc = "pdo"
    /\ \E resp \in Do(gr[p].req, ProbeResponses) :
         gr' = [gr EXCEPT ![p] =
                  [gr[p] EXCEPT !.pc = "pdone", !.resp = resp,
                                !.out = IF resp.err THEN Failure("round trip")
                                        ELSE IF resp.status # 200 THEN ProbeError(resp)
                                        ELSE NoResult]]
    /\ UNCHANGED <<dump, parsed, fn, kind, accountID, nesting, cs, oa, ta, rl, ss, now, ticks, calls, last>>

\* ------------------------------------------------------------------ cm16.New
\* The hosts cm16.New is given: host may be blank.
NewHosts == Hosts \cup {Empty}

\* CanAuthenticate on the authenticator as it is, host not passed on to it.
NewUnbound(p, host) ==
    /\ ~Crashed /\ gr[p].pc = "idle" /\ calls < MaxCalls
    /\ calls' = calls + 1
    /\ UNCHANGED <<dump, parsed, fn, kind, accountID, nesting, cs, oa, ta, rl, ss, now, ticks, last>>
    /\ gr' = [gr EXCEPT ![p] = [ProbeCall("new", ClientHost, Snapshot) EXCEPT !.given = host]]

\* cm16.New(host, auth, logger, client) with an authenticator: SetHost(host),
\* then CanAuthenticate.
New(p, host) ==
    /\ ~Crashed /\ gr[p].pc = "idle" /\ calls < MaxCalls
    /\ calls' = calls + 1
    /\ BaseSetHost(host)
    /\ ss' = ChainedSetHost(ss, host)
    /\ UNCHANGED <<dump, parsed, fn, kind, accountID, nesting, now, ticks, last>>
    /\ gr' = [gr EXCEPT ![p] = [ProbeCall("new", ClientHost', Snapshot') EXCEPT !.given = host]]

\* cm16.New(host, nil, logger, client): no authenticator, no test request.
NewNoAuth(p) ==
    /\ ~Crashed /\ gr[p].pc = "idle" /\ calls < MaxCalls
    /\ calls' = calls + 1
    /\ gr' = [gr EXCEPT ![p] =
                [IdleGoroutine EXCEPT !.pc = "ndone", !.op = "newnil", !.client = TRUE,
                                      !.pre = Snapshot]]
    /\ UNCHANGED <<dump, parsed, fn, kind, accountID, nesting, cs, oa, ta, rl, ss, now, ticks, last>>

\* fromApi(api, err): no client when CanAuthenticate returned an error.
NewFromApi(p) ==
    /\ gr[p].pc = "pdone" /\ gr[p].op = "new"
    /\ gr' = [gr EXCEPT ![p] = [gr[p] EXCEPT !.pc = "ndone", !.client = ~gr[p].out.err]]
    /\ UNCHANGED <<dump, parsed, fn, kind, accountID, nesting, cs, oa, ta, rl, ss, now, ticks, calls, last>>

\* ------------------------------------------------------------------ specification
\* One step of goroutine p inside Sign.
SignStep(p) ==
    \/ CookieSignCheck(p)
    \/ CookieSignResponse(p)
    \/ CookieSignResponse2(p)
    \/ CookieSignStore(p)
    \/ CookieSignAttach(p)
    \/ OAuthSignCheck(p)
    \/ OAuthSignResponse(p)
    \/ OAuthSignExpiry(p)
    \/ OAuthSignAttach(p)
    \/ TokenSign(p)
    \/ RL10Sign(p)
    \/ SSSignCheck(p)
    \/ SSSignResponse(p)

\* One caller at a time: calls, SetHost and the clock take turns.
Next ==
    \/ NewSSAuthenticator
    \/ \E h \in Hosts : AllIdle /\ SetHost(h)
    \/ AllIdle /\ Tick
    \/ AllIdle /\ StartSign("g1")
    \/ SignStep("g1")
    \/ Return("g1")

Spec == Init /\ [][Next]_vars

\* Goroutines share the authenticator and their Sign calls interleave freely,
\* faster than the clock advances.
NextConc ==
    \/ NewSSAuthenticator
    \/ \E p \in Procs : StartSign(p)
    \/ \E p \in Procs : SignStep(p)
    \/ \E p \in Procs : Return(p)

SpecConc == Init /\ [][NextConc]_vars

\* ------------------------------------------------------------------ helpers applied
\* extractRedirectHost applied to a response.
ApplyExtractRedirectHost ==
    /\ \E status \in StatusCodes, location \in Locations :
         LET resp == Response(status, location, <<>>, NoBody)
         IN  fn' = [name |-> "extractRedirectHost", in |-> resp,
                    out |-> extractRedirectHost(resp)]
    /\ UNCHANGED <<dump, parsed, kind, accountID, nesting, cs, oa, ta, rl, ss, now, gr, ticks, calls, last>>

\* The authenticator the client holds.
Built ==
    [kind |-> kind, accountID |-> accountID, nesting |-> nesting, ss |-> ss,
     cs |-> cs, oa |-> oa, ta |-> ta, rl |-> rl, dump |-> dump]

\* NewSSAuthenticator applied to the authenticator the client holds, which
\* holds what comes back.
ApplyNewSSAuthenticator ==
    /\ LET w == Wrap(nesting, ss, now)
       IN  /\ nesting' = w.nesting
           /\ ss' = w.ss
           /\ fn' = [name |-> "NewSSAuthenticator", in |-> Built,
                     out |-> [Built EXCEPT !.nesting = w.nesting, !.ss = w.ss]]
    /\ UNCHANGED <<dump, parsed, kind, accountID, cs, oa, ta, rl, now, gr, ticks, calls, last>>

\* SetHost(host) applied to the authenticator the client holds.
ApplySetHost(host) ==
    /\ BaseSetHost(host)
    /\ ss' = ChainedSetHost(ss, host)
    /\ UNCHANGED <<dump, parsed, kind, accountID, nesting, now, gr, ticks, calls, last>>
    /\ fn' = [name |-> "SetHost", in |-> [host |-> host, auth |-> Built], out |-> Built']

\* EnableDump(format) applied to the authenticator the client holds.
ApplyEnableDump(format) ==
    /\ EnableDump(format)
    /\ fn' = [name |-> "EnableDump", in |-> [format |-> format, auth |-> Built], out |-> Built']

\* Host strings SetHost is given besides the plain names: the test hosts, no
\* host, a name that begins with http, a host that comes with its scheme, a
\* host that comes with its slash.
Loopback == <<"1", "2", "7", ".", "0", ".", "0", ".", "1">>
HttpdHost == <<"h", "t", "t", "p", "d", ".", "e", "x", "a", "m", "p", "l", "e", ".", "c", "o", "m">>
PlainHost == <<"h", "t", "t", "p", ":", "/", "/", "s", "i", "n", "g", "l", "e", ".", "e", "x", "a", "m", "p", "l", "e", ".", "c", "o", "m">>
SlashHost == Single \o <<"/">>
EndpointHosts == Hosts \cup {Localhost, Loopback, Empty, HttpdHost, PlainHost, SlashHost}

\* The paths of the login requests and of the test request.
EndpointPaths == {<<"a", "p", "i", "/", "s", "e", "s", "s", "i", "o", "n", "s">>, <<"a", "p", "i", "/", "u", "s", "e", "r", "_", "d", "a", "t", "a">>}

\* endpoint applied to a bound host and a path.
ApplyEndpoint ==
    /\ \E host \in EndpointHosts, suffix \in EndpointPaths :
         fn' = [name |-> "endpoint", in |-> [host |-> host, suffix |-> suffix],
                out |-> endpoint(host, suffix)]
    /\ UNCHANGED <<dump, parsed, kind, accountID, nesting, cs, oa, ta, rl, ss, now, gr, ticks, calls, last>>

\* The helpers and the constructors, applied with no Sign call under way;
\* hosts are bound and time passes in between.
NextFn ==
    \/ ApplyExtractRedirectHost
    \/ ApplyEndpoint
    \/ ApplyNewSSAuthenticator
    \/ \E h \in Hosts : ApplySetHost(h)
    \/ Tick

SpecFn == Init /\ [][NextFn]_vars

\* The client is built by cm16.New or around an authenticator tested with
\* CanAuthenticate and then used, one caller at a time and faster than the
\* clock advances.
NextNew ==
    \/ NewSSAuthenticator
    \/ \E h \in NewHosts : AllIdle /\ New("g1", h)
    \/ AllIdle /\ NewNoAuth("g1")
    \/ \E h \in Hosts : AllIdle /\ SetHost(h)
    \/ AllIdle /\ StartProbe("g1")
    \/ AllIdle /\ StartSign("g1")
    \/ SignStep("g1")
    \/ ProbeAfterSign("g1")
    \/ ProbeResponse("g1")
    \/ NewFromApi("g1")
    \/ Return("g1")

SpecNew == Init /\ [][NextNew]_vars

\* The authenticator is configured with SetHost and EnableDump between the
\* Sign calls of one caller, faster than the clock advances.
NextFrame ==
    \/ NewSSAuthenticator
    \/ \E h \in Hosts : AllIdle /\ ApplySetHost(h)
    \/ \E f \in Formats : AllIdle /\ ApplyEnableDump(f)
    \/ AllIdle /\ StartSign("g1")
    \/ SignStep("g1")
    \/ Return("g1")

SpecFrame == Init /\ [][NextFrame]_vars

\* ------------------------------------------------------------------ Normalize
\* Parameters a command line gives: name=value, the name a plain key or
\* key[][field].
MaxParams == 3
Fields == {"a", "b", "c"}
ParamValues == {"foo", "bar"}
ParamNames == {<<"name">>} \cup {<<"val", "[]", f>> : f \in Fields}

\* A map of one key.
ApiParams(f, v) == f :> v

\* The array stored under k, none being an empty one.
ArrayAt(payload, k) == IF k \in DOMAIN payload THEN payload[k] ELSE <<>>

\* Every k[][f] starts a new element.
NormalizeAppending(payload, name, v) ==
    IF Len(name) = 1 THEN ApiParams(name[1], v) @@ payload
    ELSE ApiParams(name[1], Append(ArrayAt(payload, name[1]), ApiParams(name[3], v))) @@ payload

\* rsapi.Normalize(payload, name, v): a plain name sets the key; k[][f] sets
\* f in the last element of the array under k when that element has no f,
\* and appends a new element {f: v} when there is no element or it has f.
Normalize(payload, name, v) ==
    IF Len(name) = 1 THEN ApiParams(name[1], v) @@ payload
    ELSE LET k == name[1]
             f == name[3]
             array == ArrayAt(payload, k)
             n == Len(array)
         IN  IF n > 0 /\ f \notin DOMAIN array[n]
             THEN ApiParams(k, [array EXCEPT ![n] = ApiParams(f, v) @@ @]) @@ payload
             ELSE ApiParams(k, Append(array, ApiParams(f, v))) @@ payload

\* ParseCommand takes the next name=value of the command line into the payload.
ParseParam(name, v) ==
    /\ Len(parsed.Params) < MaxParams
    /\ parsed' = [Params |-> Append(parsed.Params, [name |-> name, value |-> v]),
                  PayloadParams |-> Normalize(parsed.PayloadParams, name, v)]
    /\ fn' = [name |-> "Normalize",
              in |-> [payload |-> parsed.PayloadParams, name |-> name, value |-> v],
              out |-> parsed'.PayloadParams]
    /\ UNCHANGED <<dump, kind, accountID, nesting, cs, oa, ta, rl, ss, now, gr, ticks, calls, last>>

\* A command line parsed parameter by parameter.
NextParse == \E name \in ParamNames, v \in ParamValues : ParseParam(name, v)

SpecParse == Init /\ [][NextParse]_vars

\* ------------------------------------------------------------------ properties
\* The deadline of the authenticator the client calls Sign on, now and when
\* goroutine p's call began.
TopRefreshAt == IF wrapped THEN ss.refreshAt ELSE IF kind = "oauth" THEN oa.refreshAt ELSE cs.refreshAt
TopRefreshAtBefore(p) ==
    IF wrapped THEN gr[p].pre.ss.refreshAt
    ELSE IF kind = "oauth" THEN gr[p].pre.oa.refreshAt ELSE gr[p].pre.cs.refreshAt
Refreshing == wrapped \/ kind \in CookieKinds \/ kind = "oauth"

\* Goroutine p is between the freshness test of the base authenticator and
\* the store of the state its login brings.
InBaseRefresh(p) == gr[p].pc \in {"do1", "do2", "store", "odo", "oparse"}
\* Goroutine p is between the freshness test of the Self-Service signer and
\* the store of its deadline.
InSSRefresh(p) == gr[p].mode = "boot" /\ gr[p].pc # "done"

\* C1: concurrent Sign calls on one authenticator whose deadline has passed
\* refresh one at a time: never are two goroutines inside the read-deadline /
\* login / write-state sequence of the same signer.
C1_RefreshMutuallyExclusive ==
    /\ Cardinality({p \in Procs : InBaseRefresh(p)}) <= 1
    /\ Cardinality({p \in Procs : InSSRefresh(p)}) <= 1

\* C2: a Sign call that directly follows, with no time elapsed, a Sign call
\* that returned nil reuses the cached session or token: it sends no login,
\* token or bootstrap request.
C2_SecondSignNoLogin ==
    \A p \in Procs : gr[p].prev = "nil" => gr[p].sent = <<>>

\* C3: when Sign on a cookie-session, OAuth or chained signer has returned an
\* error, that signer's deadline is the one it had when the call began and is
\* still in the past, so that the next Sign refreshes again.
C3_ErrorKeepsDeadline ==
    \A p \in Procs :
        (Refreshing /\ gr[p].pc = "done" /\ gr[p].res = "err")
            => /\ TopRefreshAt = TopRefreshAtBefore(p)
               /\ After(now, TopRefreshAt)
C3_Witness ==
    \E p \in Procs : Refreshing /\ gr[p].pc = "done" /\ gr[p].res = "err" /\ gr[p].sent # <<>>

\* C4: when a login round trip of the cookie-session signer fails at the
\* transport, Sign returns an error: the call ends, and ends with an error.
C4_TransportErrorReturned ==
    \A p \in Procs :
        (kind \in CookieKinds /\ ~wrapped /\ gr[p].resp.err)
            => (gr[p].pc = "done" /\ gr[p].res = "err")

\* C5: a chained Sign during which the inner authenticator's Sign returned an
\* error returns an error.
C5_InnerErrorReturned ==
    \A p \in Procs :
        (wrapped /\ gr[p].pc = "done" /\ gr[p].innerErrs > 0) => gr[p].res = "err"

\* C6: a step that completes a cookie-session refresh stores the time of the
\* refresh plus 2 hours, which is later than the deadline before; no other
\* step changes the cookie signer's deadline.
C6_CookieDeadline ==
    [][IF \E p \in Procs : gr[p].pc = "store" /\ gr'[p].pc = "attach"
       THEN cs'.refreshAt = now' + 2 * Hour /\ cs'.refreshAt > cs.refreshAt
       ELSE cs'.refreshAt = cs.refreshAt]_vars
C6_Witness ==
    \E p \in Procs :
        /\ kind \in CookieKinds /\ gr[p].pc = "attach" /\ gr[p].sent # <<>>
        /\ gr[p].pre.cs.refreshAt > 0
        /\ cs.refreshAt = now + 2 * Hour

\* C7: once the OAuth signer has stored the deadline for a token response
\* whose expires_in is the number ttl, the deadline is the time of the refresh
\* plus half of ttl seconds; plus 1800 s for 3600.
C7_OAuthHalfLife ==
    \A p \in Procs :
        (/\ kind = "oauth" /\ gr[p].pc = "attach" /\ gr[p].resp.body.t = "object"
         /\ gr[p].resp.body.expires_in.t = "number")
            => /\ 2 * (oa.refreshAt - now) = gr[p].resp.body.expires_in.n * Second
               /\ (gr[p].resp.body.expires_in.n = 3600 => oa.refreshAt = now + 1800 * Second)
C7_Witness ==
    \E p \in Procs :
        /\ kind = "oauth" /\ gr[p].pc = "attach"
        /\ gr[p].resp.body.t = "object" /\ gr[p].resp.body.expires_in = JNum(3600)
        /\ now > 0 /\ oa.refreshAt = now + 1800 * Second

\* C8: the OAuth signer's deadline never moves back.
C8_OAuthDeadlineMonotonic == [][oa'.refreshAt >= oa.refreshAt]_vars

\* The token response of goroutine p's call is a 200 with a JSON object.
GotSession(p) ==
    /\ kind = "oauth" /\ ~wrapped /\ gr[p].pc = "done"
    /\ ~gr[p].resp.err /\ gr[p].resp.status = 200 /\ gr[p].resp.body.t = "object"

\* C9: a token response with status 200 whose JSON has no string access_token
\* makes Sign return an error, leaves the stored token and deadline as they
\* were when the call began, and puts no Authorization header on the request.
C9_MissingTokenKeepsState ==
    \A p \in Procs :
        (GotSession(p) /\ gr[p].resp.body.access_token.t # "string")
            => /\ gr[p].res = "err"
               /\ oa.accessToken = gr[p].pre.oa.accessToken
               /\ oa.refreshAt = gr[p].pre.oa.refreshAt
               /\ gr[p].req.Authorization = Empty
C9_Witness ==
    \E p \in Procs :
        /\ GotSession(p) /\ gr[p].resp.body.access_token.t # "string"
        /\ gr[p].pre.oa.accessToken # Empty /\ oa.accessToken = gr[p].pre.oa.accessToken

\* C10: a token response with a string access_token whose expires_in is absent
\* or no duration makes Sign return an error and leaves both the stored token
\* and the deadline as they were when the call began.
C10_BadExpiryKeepsState ==
    \A p \in Procs :
        (/\ GotSession(p) /\ gr[p].resp.body.access_token.t = "string"
         /\ gr[p].resp.body.expires_in \in {JNil, JStr(<<"x">>)})
            => /\ gr[p].res = "err"
               /\ oa.accessToken = gr[p].pre.oa.accessToken
               /\ oa.refreshAt = gr[p].pre.oa.refreshAt

\* Goroutine p's call is a Sign on the cookie-session signer itself.
CookieDirect(p) == kind \in CookieKinds /\ ~wrapped /\ gr[p].mode = "direct"

CookieLoginRefused(p) ==
    /\ CookieDirect(p) /\ gr[p].pc = "done" /\ gr[p].sent # <<>>
    /\ ~gr[p].resp.err /\ gr[p].resp.status # 204
\* The response is a redirect whose Location does not parse.
BadRedirect(resp) ==
    resp.status \in 300..398 /\ resp.location # Empty /\ ~ParseURL(resp.location).ok
\* The call left the session and the caller's request as they were.
CookieUntouched(p) ==
    /\ cs.cookies = gr[p].pre.cs.cookies
    /\ cs.refreshAt = gr[p].pre.cs.refreshAt
    /\ gr[p].req.Cookies = <<>> /\ gr[p].req.XAccount = Empty

\* C12 as stated: a final login response with a status other than 204 makes
\* Sign return the authentication error, with the stored cookie set and
\* deadline unchanged and no cookie or X-Account header on the request.
C12_RefusedIsAuthFailure ==
    \A p \in Procs :
        CookieLoginRefused(p)
            => gr[p].res = "err" /\ gr[p].err = "status" /\ CookieUntouched(p)

\* C12 amended: such a response makes Sign return an error, the one of the
\* Location header when it is the first response and a redirect whose Location
\* does not parse, the authentication error otherwise, with the stored cookie set
\* and deadline unchanged and no cookie or X-Account header on the request.
C12_RefusedKeepsState ==
    \A p \in Procs :
        CookieLoginRefused(p)
            => /\ gr[p].res = "err"
               /\ gr[p].err = IF Len(gr[p].sent) = 1 /\ BadRedirect(gr[p].resp)
                               THEN "location" ELSE "status"
               /\ CookieUntouched(p)
C12_Witness ==
    \E p \in Procs :
        /\ CookieLoginRefused(p) /\ gr[p].err = "status"
        /\ gr[p].pre.cs.cookies # <<>> /\ cs.cookies = gr[p].pre.cs.cookies

\* The decimal numeral of the account id given at construction.
AccountNumeral == IF accountID = 60073 THEN <<"6", "0", "0", "7", "3">> ELSE <<"?">>

\* C13: a Sign on the cookie-session signer that has returned nil, after a
\* refresh or without one, leaves on the request the cookies of the stored
\* cookie set, all of them, and an X-Account header that is the decimal
\* numeral of the account id.
C13_NilSignAttachesSession ==
    \A p \in Procs :
        (CookieDirect(p) /\ gr[p].pc = "done" /\ gr[p].res = "nil")
            => /\ gr[p].req.Cookies = cs.cookies
               /\ gr[p].req.XAccount = AccountNumeral
C13_Witness ==
    \E p \in Procs :
        /\ CookieDirect(p) /\ gr[p].pc = "done" /\ gr[p].res = "nil"
        /\ gr[p].sent = <<>> /\ Len(gr[p].req.Cookies) = 2
        /\ gr[p].req.XAccount = AccountNumeral

\* C14: when the final login response of a Sign on the cookie-session signer
\* is a 204 that sets no cookie, Sign returns nil, the stored cookie set is
\* empty, the deadline is the time of the refresh plus 2 hours, and the
\* request carries the X-Account header and no cookie.
C14_EmptySessionIsSuccess ==
    \A p \in Procs :
        (/\ CookieDirect(p) /\ gr[p].pc = "done" /\ gr[p].sent # <<>>
         /\ ~gr[p].resp.err /\ gr[p].resp.status = 204 /\ gr[p].resp.cookies = <<>>)
            => /\ gr[p].res = "nil"
               /\ cs.cookies = <<>>
               /\ cs.refreshAt = now + 2 * Hour
               /\ gr[p].req.Cookies = <<>>
               /\ gr[p].req.XAccount = AccountNumeral
C14_Witness ==
    \E p \in Procs :
        /\ CookieDirect(p) /\ gr[p].pc = "done" /\ gr[p].sent # <<>>
        /\ ~gr[p].resp.err /\ gr[p].resp.status = 204 /\ gr[p].resp.cookies = <<>>
        /\ gr[p].pre.cs.cookies # <<>> /\ cs.cookies = <<>>
        /\ cs.refreshAt = now + 2 * Hour /\ now > 0

\* The cookies a request carries; none for a request not built.
CookiesOf(r) == IF r.kind = "none" THEN <<>> ELSE r.Cookies

\* C15: with Sign calls running concurrently, the stored cookie set and the
\* cookies on any one request are always the cookies of one 204 login
\* response, all of them and no other: never some of a session's cookies,
\* never cookies of two sessions.
C15_WholeSessions ==
    /\ cs.cookies \in CookieSets
    /\ \A p \in Procs :
          CookiesOf(gr[p].req) \in CookieSets /\ CookiesOf(gr[p].areq) \in CookieSets

\* The statuses extractRedirectHost looks for a Location under.
RedirectStatuses == 300 .. 398

\* C16: extractRedirectHost returns the empty host and no error for a response
\* whose status is outside 300..398 or whose Location is empty; the host
\* us-4.rightscale.com and no error for a status in 300..398 with the Location
\* https://us-4.rightscale.com/x; an error for a status in 300..398 with the
\* Location ://bad.
C16_RedirectHost ==
    fn.name = "extractRedirectHost" =>
        /\ (fn.in.status \notin RedirectStatuses \/ fn.in.location = Empty)
              => fn.out = [ok |-> TRUE, host |-> Empty]
        /\ (fn.in.status \in RedirectStatuses /\ fn.in.location = LocUs4)
              => fn.out = [ok |-> TRUE, host |-> Us4]
        /\ (fn.in.status \in RedirectStatuses /\ fn.in.location = LocBad)
              => ~fn.out.ok
C16_Witness ==
    /\ fn.name = "extractRedirectHost"
    /\ fn.in.status = 302 /\ fn.in.location = LocUs4
    /\ fn.out = [ok |-> TRUE, host |-> Us4]

\* The host the inner authenticator of the chained signer is bound to.
InnerHost ==
    IF kind \in CookieKinds THEN cs.host
    ELSE IF kind = "oauth" THEN oa.host
    ELSE IF kind = "token" THEN ta.host
    ELSE rl.host

\* selfservice-3.rightscale.com
Selfservice3 ==
    <<"s", "e", "l", "f", "s", "e", "r", "v", "i", "c", "e", "-", "3", ".",
      "r", "i", "g", "h", "t", "s", "c", "a", "l", "e", ".", "c", "o", "m">>

\* C17 as stated: once SetHost has bound the chained signer, its secondary
\* host is us-selfservice-3.rightscale.com when the host given was
\* us-3.rightscale.com, and single.example.com when it was single.example.com.
C17_DerivedHostAsStated ==
    (wrapped /\ ss.host # Empty)
        => /\ (InnerHost = Us3 => ss.host = SsUs3)
           /\ (InnerHost = Single => ss.host = Single)

\* C17 amended: once SetHost has bound the chained signer, its secondary host
\* is selfservice-3.rightscale.com when the host given was us-3.rightscale.com
\* (the dash-segment before the last, "us", is the one replaced), and
\* single.example.com when it was single.example.com.
C17_DerivedHost ==
    (wrapped /\ ss.host # Empty)
        => /\ (InnerHost = Us3 => ss.host = Selfservice3)
           /\ (InnerHost = Single => ss.host = Single)
C17_Witness == wrapped /\ InnerHost = Us3 /\ ss.host = Selfservice3

\* C18: NewSSAuthenticator applied to a chained signer returns that signer,
\* with the inner authenticator, account id, host and deadline it had; and
\* however often it is applied, no chained signer is around a chained signer.
C18_WrapOnce ==
    /\ nesting <= 1
    /\ (fn.name = "NewSSAuthenticator" /\ fn.in.nesting >= 1) => fn.out = fn.in
C18_Witness ==
    /\ fn.name = "NewSSAuthenticator" /\ fn.in.nesting = 1
    /\ fn.in.ss.host = Selfservice3 /\ fn.in.ss.refreshAt < now - 2 * Minute
    /\ fn.out = fn.in /\ Built = fn.in

\* Request r carries the signature of the inner authenticator.
Signed(r) ==
    IF kind \in CookieKinds THEN r.XAccount = AccountNumeral
    ELSE IF kind = "rl10" THEN r.XRLLSecret # Empty
    ELSE r.Authorization # Empty

\* C19: the bootstrap request a chained signer bound to a secondary host is
\* about to send, after the inner authenticator's Sign on it returned nil, is
\* addressed to the secondary host and carries the inner authenticator's
\* signature, whatever the inner authenticator had to do to sign it.
C19_BootstrapToSecondaryHost ==
    \A p \in Procs :
        (wrapped /\ gr[p].pc = "ss_do" /\ gr[p].innerErrs = 0 /\ ss.host # Empty)
            => /\ gr[p].areq.URLHost = ss.host
               /\ gr[p].areq.Host = ss.host
               /\ Signed(gr[p].areq)

\* Goroutine p's Sign on the chained signer has returned nil.
ChainedNil(p) == wrapped /\ gr[p].pc = "done" /\ gr[p].res = "nil"

\* C20: a Sign on the chained signer that has returned nil leaves the caller's
\* request with the inner authenticator's signature (when no inner Sign of the
\* call failed), X-Api-Version 1.0 and the secondary host as its Host; and
\* when the call sent the bootstrap request, the chained deadline is the time
\* of the call plus 2 hours, whatever the inner authenticator's deadline.
C20_ChainedSign ==
    \A p \in Procs :
        ChainedNil(p)
            => /\ gr[p].innerErrs = 0 => Signed(gr[p].req)
               /\ gr[p].req.XApiVersion = "1.0"
               /\ gr[p].req.Host = ss.host
               /\ gr[p].areq.kind # "none" => ss.refreshAt = now + 2 * Hour
C20_Witness ==
    \E p \in Procs :
        /\ ChainedNil(p) /\ kind \in CookieKinds /\ gr[p].innerErrs = 0
        /\ gr[p].areq.kind # "none" /\ ss.refreshAt = now + 2 * Hour
        /\ cs.refreshAt # ss.refreshAt
        /\ Signed(gr[p].req) /\ gr[p].req.XApiVersion = "1.0"
        /\ ss.host = Selfservice3 /\ gr[p].req.Host = Selfservice3

\* The host authenticator b's base authenticator is bound to.
BoundHost(b) ==
    IF b.kind \in CookieKinds THEN b.cs.host
    ELSE IF b.kind = "oauth" THEN b.oa.host
    ELSE IF b.kind = "token" THEN b.ta.host
    ELSE b.rl.host

\* The secondary host the spec derives from the hosts SetHost is given.
Derived(h) == IF h = Us3 THEN Selfservice3 ELSE h

\* Authenticator b is bound to host h: its base authenticator to h and, when
\* it is a chained signer, its secondary host to the host derived from h.
BoundTo(b, h) ==
    /\ BoundHost(b) = h
    /\ b.nesting >= 1 => b.ss.host = Derived(h)

\* Authenticators a and b differ in their host bindings at most.
SameButHosts(a, b) ==
    /\ a.kind = b.kind /\ a.accountID = b.accountID /\ a.nesting = b.nesting
    /\ a.ss.refreshAt = b.ss.refreshAt
    /\ a.cs.cookies = b.cs.cookies /\ a.cs.refreshAt = b.cs.refreshAt
    /\ a.oa.accessToken = b.oa.accessToken /\ a.oa.refreshAt = b.oa.refreshAt

\* C21: SetHost(h), on any variant and however many SetHost calls came before,
\* leaves the authenticator bound to h (a chained signer: inner host h and
\* secondary host derived from h) and nothing else changed, so that the next
\* login of a session signer is sent to h; applied to an authenticator already
\* bound to h it changes nothing.
C21_SetHostIdempotent ==
    fn.name = "SetHost" =>
        /\ BoundTo(fn.out, fn.in.host)
        /\ SameButHosts(fn.in.auth, fn.out)
        /\ fn.out.kind \in CookieKinds
              => BuildLoginRequest(fn.out.kind, fn.out.cs.host).URLHost = fn.in.host
        /\ BoundTo(fn.in.auth, fn.in.host) => fn.out = fn.in.auth
C21_Witness ==
    /\ fn.name = "SetHost" /\ fn.in.host = Us3 /\ fn.in.auth.nesting = 1
    /\ BoundHost(fn.in.auth) = Us3 /\ fn.in.auth.ss.host = Selfservice3
    /\ fn.out = fn.in.auth

\* Goroutine p's CanAuthenticate has returned after the round trip of its
\* test request, with a response.
ProbeAnswered(p) ==
    /\ gr[p].pc = "pdone" /\ gr[p].op = "probe"
    /\ gr[p].out.why \in {"", "response"}

\* C22: CanAuthenticate returns nil when the Sign of the test request returned
\* nil and the response has status 200, and only then; for a response with
\* another status it returns an error made of the status and of the body of
\* the response.
C22_ProbeResult ==
    \A p \in Procs :
        /\ (gr[p].pc = "pdone" /\ gr[p].op = "probe")
              => (~gr[p].out.err <=>
                    (gr[p].res = "nil" /\ ProbeAnswered(p) /\ gr[p].resp.status = 200))
        /\ (ProbeAnswered(p) /\ gr[p].resp.status # 200 /\ ~gr[p].resp.body.failed)
              => /\ gr[p].out.err
                 /\ gr[p].out.status = gr[p].resp.status
                 /\ gr[p].out.body = gr[p].resp.body.read

\* C23: a Sign on the static bearer-token signer or on the proxy-secret
\* signer, whatever host it is bound to and whenever it is called, sends no
\* request, returns nil and leaves the request with Authorization: Bearer tk
\* (the token given at construction), respectively X-RLL-Secret: sc (the
\* secret given at construction).
C23_StaticSigners ==
    \A p \in Procs :
        (kind \in {"token", "rl10"} /\ ~wrapped /\ gr[p].pc = "done" /\ gr[p].op = "sign")
            => /\ gr[p].res = "nil"
               /\ gr[p].sent = <<>>
               /\ kind = "token"
                     => gr[p].req.Authorization = <<"B", "e", "a", "r", "e", "r", " ", "t", "k">>
               /\ kind = "rl10" => gr[p].req.XRLLSecret = <<"s", "c">>
C23_Witness ==
    \E p \in Procs :
        /\ kind = "token" /\ ~wrapped /\ gr[p].pc = "done" /\ gr[p].op = "sign"
        /\ now > 2 * Hour /\ ta.host = Single /\ gr[p].prev = "nil"
        /\ gr[p].req.Authorization = <<"B", "e", "a", "r", "e", "r", " ", "t", "k">>

\* C24: within one Sign call, once a login made by that call has failed (the
\* inner authenticator's Sign returned an error), the call puts no other
\* login request on the wire.
C24_NoRetry ==
    \A p \in Procs :
        ~(gr[p].op = "sign" /\ gr[p].innerErrs >= 1 /\ gr[p].mode = "final"
          /\ gr[p].pc \in {"do1", "odo"})

\* C25: cm16.New called with a blank host and an authenticator does not
\* return an error on account of the host being blank.
C25_BlankHostAccepted ==
    \A p \in Procs :
        (gr[p].pc = "ndone" /\ gr[p].op = "new" /\ gr[p].given = Empty)
            => gr[p].out.why # "host"

\* cm16.New has called CanAuthenticate, which has not yet called Sign.
NewProbing(p) == gr[p].op = "new" /\ gr[p].pc \in {"check", "ss_check"}

\* C26: cm16.New with an authenticator probes an authenticator already bound
\* to the host it was given (the test request goes to that host, or to the
\* host derived from it for a chained signer), and returns no client exactly
\* when CanAuthenticate returned an error; with no authenticator it makes no
\* request and returns a client and no error.
C26_NewProbesBoundHost ==
    \A p \in Procs :
        /\ NewProbing(p)
              => /\ ClientHost = (IF wrapped THEN Derived(gr[p].given) ELSE gr[p].given)
                 /\ gr[p].req.kind = "probe"
                 /\ gr[p].req.URLHost = ClientHost
        /\ (gr[p].pc = "ndone" /\ gr[p].op = "new")
              => /\ gr[p].client = ~gr[p].out.err
                 /\ gr[p].client => gr[p].resp.status = 200
        /\ (gr[p].pc = "ndone" /\ gr[p].op = "newnil")
              => /\ gr[p].client /\ ~gr[p].out.err
                 /\ gr[p].req = NoRequest /\ gr[p].sent = <<>>
C26_Witness ==
    \E p \in Procs :
        /\ gr[p].pc = "ndone" /\ gr[p].op = "new" /\ gr[p].given = Us3
        /\ gr[p].pre.cs.host = Us3 /\ kind = "basic" /\ ~wrapped
        /\ gr[p].out.err /\ gr[p].out.why = "response" /\ ~gr[p].client

\* The names of the parameters taken so far.
NamesTaken == [i \in 1 .. Len(parsed.Params) |-> parsed.Params[i].name]

\* C27: Normalize for a name k[][f]: when the array under k has a last
\* element without key f, the value goes under f in that element and the
\* array grows by nothing; when there is no element, or the last one has f,
\* a new element {f: value} is appended; the elements before the last, and
\* the keys the last one had, stay as they were. Parameters val[][a],
\* val[][b], val[][c] in a row give one element with keys a, b and c.
C27_ArrayOfMaps ==
    /\ (fn.name = "Normalize" /\ Len(fn.in.name) = 3)
          => LET k == fn.in.name[1]
                 f == fn.in.name[3]
                 before == IF k \in DOMAIN fn.in.payload THEN fn.in.payload[k] ELSE <<>>
                 after == fn.out[k]
                 n == Len(before)
             IN  /\ IF n > 0 /\ f \notin DOMAIN before[n]
                    THEN /\ Len(after) = n
                         /\ DOMAIN after[n] = DOMAIN before[n] \cup {f}
                         /\ after[n][f] = fn.in.value
                         /\ \A g \in DOMAIN before[n] : after[n][g] = before[n][g]
                    ELSE /\ Len(after) = n + 1
                         /\ DOMAIN after[n + 1] = {f}
                         /\ after[n + 1][f] = fn.in.value
                         /\ n > 0 => after[n] = before[n]
                 /\ \A i \in 1 .. n - 1 : after[i] = before[i]
                 /\ \A j \in DOMAIN fn.in.payload \ {k} :
                        j \in DOMAIN fn.out /\ fn.out[j] = fn.in.payload[j]
    /\ NamesTaken = <<(<<"val", "[]", "a">>), (<<"val", "[]", "b">>), (<<"val", "[]", "c">>)>>
          => /\ Len(parsed.PayloadParams["val"]) = 1
             /\ DOMAIN parsed.PayloadParams["val"][1] = {"a", "b", "c"}
             /\ \A i \in 1 .. 3 :
                    parsed.PayloadParams["val"][1][parsed.Params[i].name[3]] = parsed.Params[i].value
C27_Witness ==
    /\ NamesTaken = <<(<<"val", "[]", "a">>), (<<"val", "[]", "b">>), (<<"val", "[]", "a">>)>>
    /\ fn.name = "Normalize" /\ Len(fn.in.payload["val"]) = 1
    /\ Len(parsed.PayloadParams["val"]) = 2
    /\ DOMAIN parsed.PayloadParams["val"][1] = {"a", "b"}

\* Goroutine p's Sign call has put a request of the given kind on the wire.
Issued(p, k) == \E i \in 1 .. Len(gr[p].sent) : gr[p].sent[i].kind = k

\* The deadline of the base authenticator when goroutine p's call began.
BaseRefreshAtBefore(p) ==
    IF kind = "oauth" THEN gr[p].pre.oa.refreshAt ELSE gr[p].pre.cs.refreshAt

\* C28 as stated, for a chained signer around an OAuth signer that holds a
\* token: a Sign call made no later than the chained signer's deadline sends
\* nothing at all and changes no signer's state, the inner authenticator's
\* included.
C28_NoRoundTripAsStated ==
    \A p \in Procs :
        (wrapped /\ kind = "oauth" /\ gr[p].pre.oa.accessToken # Empty
         /\ gr[p].pc \notin {"idle", "ss_check"}
         /\ gr[p].pre.now <= gr[p].pre.ss.refreshAt)
            => /\ gr[p].sent = <<>>
               /\ ss = gr[p].pre.ss /\ cs = gr[p].pre.cs /\ oa = gr[p].pre.oa

\* C28 (amended): each signer by its own deadline.
\* A Sign call on a cookie or OAuth signer has issued its login request
\* exactly when the call was made strictly later than the stored deadline,
\* and a Sign call on a chained signer its bootstrap request exactly when it
\* was made strictly later than the chained signer's deadline; the first
\* Sign after construction always issues it; a call made no later than the
\* deadline sends nothing for that signer, returns nil and leaves its state
\* as it was.
C28_LoginIffExpired ==
    \A p \in Procs :
        /\ (kind \in CookieKinds \cup {"oauth"} /\ ~wrapped /\ gr[p].pc \notin {"idle", "check"})
              => /\ (gr[p].sent # <<>>) <=> (gr[p].pre.now > BaseRefreshAtBefore(p))
                 /\ calls = 1 => gr[p].sent # <<>>
                 /\ gr[p].pre.now <= BaseRefreshAtBefore(p)
                       => /\ cs = gr[p].pre.cs /\ oa = gr[p].pre.oa
                          /\ gr[p].pc = "done" => gr[p].res = "nil"
        /\ (wrapped /\ gr[p].pc \notin {"idle", "ss_check"}
               /\ (gr[p].mode = "final" \/ gr[p].pc \in {"ss_do", "done"}))
              => /\ Issued(p, "boot") <=> (gr[p].pre.now > gr[p].pre.ss.refreshAt)
                 /\ calls = 1 => Issued(p, "boot")
                 /\ gr[p].pre.now <= gr[p].pre.ss.refreshAt
                       => /\ ss = gr[p].pre.ss
                          /\ (kind \in CookieKinds \cup {"oauth"} /\ gr[p].pc # "check")
                                => /\ (gr[p].sent # <<>>)
                                         <=> (gr[p].pre.now > BaseRefreshAtBefore(p))
                                   /\ gr[p].pre.now <= BaseRefreshAtBefore(p)
                                         => cs = gr[p].pre.cs /\ oa = gr[p].pre.oa
C28_Witness ==
    \E p \in Procs :
        /\ kind \in CookieKinds /\ ~wrapped /\ gr[p].pc = "done"
        /\ gr[p].pre.now = 2 * Hour /\ gr[p].pre.cs.refreshAt = 2 * Hour
        /\ gr[p].sent = <<>> /\ gr[p].res = "nil" /\ cs = gr[p].pre.cs

\* Goroutine p's Sign call on the OAuth signer refreshed and returned nil.
OAuthRefreshed(p) ==
    /\ gr[p].pc = "done" /\ gr[p].op = "sign" /\ gr[p].res = "nil" /\ gr[p].sent # <<>>
    /\ gr[p].resp.body.t = "object" /\ gr[p].resp.body.expires_in.t = "number"

\* C29: once the concurrent Sign calls on an OAuth signer have refreshed and
\* returned nil, the stored access token and the stored deadline are those
\* of one and the same token response.
C29_TokenAndExpiryOfOneResponse ==
    (kind = "oauth" /\ ~wrapped /\ \A p \in Procs : OAuthRefreshed(p))
        => \E p \in Procs :
              /\ oa.accessToken = gr[p].resp.body.access_token.s
              /\ oa.refreshAt = now + GoDiv(gr[p].resp.body.expires_in.n * Second, 2)

\* C30: once SetHost has been called on a chained signer, its secondary host
\* is the host derived from the one the inner authenticator is bound to now.
C30_SecondaryHostFollowsInner ==
    (wrapped /\ ss.host # Empty) => ss.host = SSHost(InnerHost)

\* The request goroutine p handed to Sign, as it was when the call began.
RequestBefore(p) ==
    NewRequest("api", "GET", endpoint(gr[p].pre.cs.host, <<"a", "p", "i", "/", "x">>))

\* C31: a Sign call on a cookie signer that returned an error has left the
\* signer bound to the host it was bound to, and the caller's request with
\* the Host and the URL host it came with.
C31_ErrorKeepsBinding ==
    \A p \in Procs :
        (CookieDirect(p) /\ gr[p].op = "sign" /\ gr[p].pc = "done" /\ gr[p].res = "err")
            => /\ cs.host = gr[p].pre.cs.host
               /\ gr[p].req.Host = RequestBefore(p).Host
               /\ gr[p].req.URLHost = RequestBefore(p).URLHost

\* C32: in a Sign call on a chained signer in which the inner authenticator's
\* Sign of the bootstrap request returned an error, the chained signer's
\* deadline stays what it was when the call began.
C32_BootstrapErrorKeepsDeadline ==
    \A p \in Procs :
        (wrapped /\ gr[p].op = "sign" /\ gr[p].mode = "final" /\ gr[p].pc = "check"
         /\ gr[p].innerErrs >= 1)
            => ss.refreshAt = gr[p].pre.ss.refreshAt

\* C33: a Sign call on a cookie signer sends at most two requests, both login
\* requests, the second only after a redirect; once the reissued login has
\* been answered nothing more is sent, and when that answer is a 3xx the
\* call ends with the authentication error.
C33_AtMostOneRedirect ==
    \A p \in Procs :
        (CookieDirect(p) /\ gr[p].op = "sign")
            => /\ Len(gr[p].sent) <= 2
               /\ \A i \in 1 .. Len(gr[p].sent) : gr[p].sent[i].kind = "login"
               /\ (Len(gr[p].sent) = 2 /\ gr[p].pc # "do2")
                     => /\ gr[p].pc \in {"store", "attach", "done"}
                        /\ gr[p].resp.err \/ gr[p].resp.status \in 300 .. 399
                              => gr[p].pc = "done" /\ gr[p].res = "err"
                        /\ (~gr[p].resp.err /\ gr[p].resp.status \in 300 .. 399)
                              => gr[p].err = "status"
C33_Witness ==
    \E p \in Procs :
        /\ CookieDirect(p) /\ gr[p].op = "sign" /\ gr[p].pc = "done"
        /\ Len(gr[p].sent) = 2 /\ ~gr[p].resp.err
        /\ gr[p].resp.status = 302 /\ gr[p].resp.location = LocUs4
        /\ gr[p].res = "err" /\ gr[p].err = "status"

\* What authenticator b holds of its sessions: cookies, token, deadlines.
SessionOf(b) ==
    [cookies |-> b.cs.cookies, cookiesUntil |-> b.cs.refreshAt,
     accessToken |-> b.oa.accessToken, tokenUntil |-> b.oa.refreshAt,
     bootUntil |-> b.ss.refreshAt]

\* A Sign call of goroutine p that began on the authenticator the last
\* SetHost or EnableDump left, has returned.
SignedAfterConfig(p) ==
    /\ fn.name \in {"SetHost", "EnableDump"}
    /\ gr[p].op = "sign" /\ gr[p].pc = "done"
    /\ gr[p].pre.cs = fn.out.cs /\ gr[p].pre.oa = fn.out.oa /\ gr[p].pre.ss = fn.out.ss

\* C34: SetHost changes the host bindings and nothing else, EnableDump the
\* dump format and nothing else: cookies, access token and deadlines are
\* what they were. The Sign call that follows, the deadline not passed,
\* sends no login request and attaches the session held before the
\* SetHost or EnableDump call.
C34_ConfigKeepsSession ==
    /\ fn.name = "SetHost"
          => /\ SessionOf(fn.out) = SessionOf(fn.in.auth)
             /\ fn.out.dump = fn.in.auth.dump
    /\ fn.name = "EnableDump"
          => /\ SessionOf(fn.out) = SessionOf(fn.in.auth)
             /\ fn.out = [fn.in.auth EXCEPT !.dump = fn.out.dump]
             /\ fn.out.dump.base = fn.in.format
             /\ fn.out.nesting >= 1 => fn.out.dump.ss = fn.in.format
    /\ \A p \in Procs :
          SignedAfterConfig(p)
              => /\ (~wrapped /\ kind \in CookieKinds
                     /\ gr[p].pre.now <= fn.in.auth.cs.refreshAt)
                       => /\ gr[p].sent = <<>> /\ gr[p].res = "nil"
                          /\ gr[p].req.Cookies = fn.in.auth.cs.cookies
                 /\ (~wrapped /\ kind = "oauth"
                     /\ gr[p].pre.now <= fn.in.auth.oa.refreshAt)
                       => /\ gr[p].sent = <<>> /\ gr[p].res = "nil"
                          /\ gr[p].req.Authorization
                                = <<"B", "e", "a", "r", "e", "r", " ">> \o fn.in.auth.oa.accessToken
                 /\ (wrapped /\ gr[p].pre.now <= fn.in.auth.ss.refreshAt)
                       => ~Issued(p, "boot")
C34_Witness ==
    \E p \in Procs :
        /\ SignedAfterConfig(p) /\ fn.name = "SetHost" /\ kind = "basic" /\ ~wrapped
        /\ fn.in.host = Single /\ fn.in.auth.cs.host = Us3
        /\ fn.in.auth.cs.cookies = <<"a1", "a2">> /\ fn.in.auth.dump.base = "Debug"
        /\ gr[p].sent = <<>> /\ gr[p].req.Cookies = <<"a1", "a2">>
        /\ gr[p].req.URLHost = Single

\* Goroutine p's CanAuthenticate on an authenticator that is not chained has
\* built its test request.
Probing(p) == ~wrapped /\ gr[p].op \in {"probe", "new"} /\ gr[p].req # NoRequest

InstanceFacing(r) == HasSuffix(r.url, <<"/", "a", "p", "i", "/", "u", "s", "e", "r", "_", "d", "a", "t", "a">>)
AccountFacing(r) == HasSuffix(r.url, <<"/", "a", "p", "i", "/", "s", "e", "s", "s", "i", "o", "n", "s">>)

\* C35 as stated: the test request goes to api/user_data for the RL10
\* authenticator only, to api/sessions for every other one.
C35_OnlyRL10InstanceFacing ==
    \A p \in Procs :
        Probing(p) => /\ InstanceFacing(gr[p].req) <=> kind = "rl10"
                      /\ AccountFacing(gr[p].req) <=> kind # "rl10"

\* C35 (amended): the test request goes to api/user_data for the RL10
\* authenticator and for the cookie signer built on the instance token, to
\* api/sessions for the password cookie signer, the OAuth signer and the
\* static token authenticator; either way it is a GET with X-Api-Version 1.5.
C35_InstanceSignersInstanceFacing ==
    \A p \in Procs :
        Probing(p) => /\ InstanceFacing(gr[p].req) <=> kind \in {"rl10", "instance"}
                      /\ AccountFacing(gr[p].req) <=> kind \in {"basic", "oauth", "token"}
                      /\ gr[p].req.method = "GET" /\ gr[p].req.XApiVersion = "1.5"
C35_Witness ==
    \E p \in Procs :
        /\ Probing(p) /\ kind = "instance" /\ gr[p].op = "probe" /\ gr[p].pc = "pdone"
        /\ InstanceFacing(gr[p].req) /\ gr[p].req.URLHost = Us3
        /\ ~gr[p].out.err /\ gr[p].resp.status = 200

\* A host string without the slash it ends with.
Unslashed(h) == IF HasSuffix(h, <<"/">>) THEN Take(h, Len(h) - 1) ELSE h

\* C36: the URL built from a bound host and a path is https://, or http://
\* for localhost and 127.0.0.1, then the host, one slash and the path.
C36_HttpsAndOneSlash ==
    fn.name = "endpoint"
        => fn.out = (IF Unslashed(fn.in.host) \in {Localhost, Loopback}
                     THEN <<"h", "t", "t", "p", ":", "/", "/">>
                     ELSE <<"h", "t", "t", "p", "s", ":", "/", "/">>)
                    \o Unslashed(fn.in.host) \o <<"/">> \o fn.in.suffix
=============================================================================
